---- MODULE Spec2Model ----
\* A model of countdown_solver.py: the dependency table of Groups built by
\* Solutions._unique_groups, the partitions and calculations of every Group,
\* and the scan of countdown_solver over Solutions.walk().
EXTENDS Integers, Sequences, FiniteSets, TLC

VARIABLES pc, target, unsorted_numbers, numbers, all_groups, m, k,
          emitted, smallest_difference, bestresults, pos, printed

vars == <<pc, target, unsorted_numbers, numbers, all_groups, m, k,
          emitted, smallest_difference, bestresults, pos, printed>>

-----------------------------------------------------------------------------
\* Bounds of the inputs that cli() may return.

MaxNum == 2
MaxLen == 4
TargetBound == 3

\* The inputs of the scenarios and of the Group docstring, which use numbers
\* beyond MaxNum: <<target, numbers as typed on the command line>>.
ScenarioInputs ==
    { <<15, <<7, 5, 3>>>>, <<15, <<3, 7, 5>>>>, <<100, <<100>>>>,
      <<1, <<2, 3>>>>, <<7, <<2, 2>>>>, <<10, <<1, 4, 1, 2>>>>,
      <<9, <<3, 1, 3, 2>>>>, <<1, <<3>>>> }

SeqsUpTo(S, n) == UNION { [1..l -> S] : l \in 1..n }

Inputs ==
    ((-TargetBound..TargetBound) \X SeqsUpTo(1..MaxNum, MaxLen))
        \cup ScenarioInputs

-----------------------------------------------------------------------------
\* Helpers for Python built-ins.

Abs(n) == IF n < 0 THEN -n ELSE n

RECURSIVE InsertDesc(_, _)
InsertDesc(n, s) ==
    IF s = <<>> THEN <<n>>
    ELSE IF n >= Head(s) THEN <<n>> \o s
    ELSE <<Head(s)>> \o InsertDesc(n, Tail(s))

\* sorted(unsorted_numbers, reverse=True)
RECURSIVE SortedReverse(_)
SortedReverse(s) ==
    IF s = <<>> THEN <<>> ELSE InsertDesc(Head(s), SortedReverse(Tail(s)))

\* The sequence f as a tuple of evaluated elements (a Python list or tuple).
List(f) == <<>> \o f

RECURSIVE FlattenRange(_, _, _)
FlattenRange(ss, lo, hi) ==
    IF lo > hi THEN <<>>
    ELSE IF lo = hi THEN ss[lo]
    ELSE LET mid == (lo + hi) \div 2
         IN  FlattenRange(ss, lo, mid) \o FlattenRange(ss, mid + 1, hi)

\* The concatenation of a sequence of sequences ("yield from" in a loop).
Flatten(ss) == LET l == List(ss) IN FlattenRange(l, 1, Len(l))

\* The index tuples of itertools.combinations over positions lo..n, r at a
\* time, in the lexicographic order in which itertools emits them.
RECURSIVE CombFrom(_, _, _)
CombFrom(lo, n, r) ==
    IF r = 0 THEN << <<>> >>
    ELSE IF n - lo + 1 < r THEN <<>>
    ELSE LET rest == CombFrom(lo + 1, n, r - 1)
         IN  [i \in 1..Len(rest) |-> <<lo>> \o rest[i]]
                 \o CombFrom(lo + 1, n, r)

\* itertools.combinations(iterable, r): the value tuples, by position.
combinations(iterable, r) ==
    LET idx == CombFrom(1, Len(iterable), r)
    IN  List([i \in 1..Len(idx) |-> List([j \in 1..r |-> iterable[idx[i][j]]])])

-----------------------------------------------------------------------------
\* class Calculation

Calculation(expression, result, is_singleton) ==
    [expr |-> expression, result |-> result, is_singleton |-> is_singleton]

singleton(n) == Calculation(ToString(n), n, TRUE)

\* operations with the subtraction guarded by x >= y.
operations_sub_equal(x, y) ==
    << <<x + y, "+">> >>
    \o (IF x >= y THEN << <<x - y, "-">> >> ELSE <<>>)
    \o (IF y > 1 /\ x > 1 THEN << <<x * y, "x">> >> ELSE <<>>)
    \o (IF y > 1 /\ x % y = 0 THEN << <<x \div y, "/">> >> ELSE <<>>)

\* operations with the division guarded by exactness alone.
operations_div_by_one(x, y) ==
    << <<x + y, "+">> >>
    \o (IF x > y THEN << <<x - y, "-">> >> ELSE <<>>)
    \o (IF y > 1 /\ x > 1 THEN << <<x * y, "x">> >> ELSE <<>>)
    \o (IF x % y = 0 THEN << <<x \div y, "/">> >> ELSE <<>>)

\* Calculation.operations(x, y): the sequence of <<result, op>> it yields.
operations(x, y) ==
    << <<x + y, "+">> >>
    \o (IF x > y THEN << <<x - y, "-">> >> ELSE <<>>)
    \o (IF y > 1 /\ x > 1 THEN << <<x * y, "x">> >> ELSE <<>>)
    \o (IF y > 1 /\ x % y = 0 THEN << <<x \div y, "/">> >> ELSE <<>>)

\* generate that puts every operand in parentheses, singletons included.
generate_all_parens(calca, calcb) ==
    LET swap == calca.result < calcb.result
        ca == IF swap THEN calcb ELSE calca
        cb == IF swap THEN calca ELSE calcb
        ops == operations(ca.result, cb.result)
        expr1 == "(" \o ca.expr \o ")"
        expr2 == "(" \o cb.expr \o ")"
    IN  List([i \in 1..Len(ops) |->
            [calc |-> Calculation(expr1 \o " " \o ops[i][2] \o " " \o expr2,
                                  ops[i][1], FALSE),
             op |-> ops[i][2], x |-> ca.result, y |-> cb.result]])

\* Calculation.generate(calca, calcb), each yielded Calculation together with
\* the operation and the operand results it was made from.
generate(calca, calcb) ==
    LET swap == calca.result < calcb.result
        ca == IF swap THEN calcb ELSE calca
        cb == IF swap THEN calca ELSE calcb
        ops == operations(ca.result, cb.result)
        expr1 == IF ca.is_singleton THEN ca.expr ELSE "(" \o ca.expr \o ")"
        expr2 == IF cb.is_singleton THEN cb.expr ELSE "(" \o cb.expr \o ")"
    IN  List([i \in 1..Len(ops) |->
            [calc |-> Calculation(expr1 \o " " \o ops[i][2] \o " " \o expr2,
                                  ops[i][1], FALSE),
             op |-> ops[i][2], x |-> ca.result, y |-> cb.result]])

-----------------------------------------------------------------------------
\* class Group

\* filtering that drops every value that occurs in elements.
filtering_by_value(iterable, elements) ==
    SelectSeq(iterable,
              LAMBDA n : \A i \in 1..Len(elements) : elements[i] # n)

\* Group.filtering(iterable, elements)
RECURSIVE filtering(_, _)
filtering(iterable, elements) ==
    IF iterable = <<>> THEN <<>>
    ELSE IF elements # <<>> /\ Head(iterable) = Head(elements)
         THEN filtering(Tail(iterable), Tail(elements))
         ELSE <<Head(iterable)>> \o filtering(Tail(iterable), elements)

\* The loop of Group._halfbinom after l rounds.
RECURSIVE HalfbinomProd(_, _)
HalfbinomProd(n, l) ==
    IF l = 0 THEN 1 ELSE (HalfbinomProd(n, l - 1) * (n + 1 - l)) \div l

\* Group._halfbinom(n, k); None is the empty set, a number v is {v}.
_halfbinom(n, kk) ==
    IF n % 2 = 1 THEN {} ELSE {HalfbinomProd(n, kk) \div 2}

\* _paired_combinations that tests the limit before it yields.
_paired_combinations_early(nums, mm, limit) ==
    LET combs == combinations(nums, mm)
        stops == {cnt \in 1..Len(combs) : cnt \in limit}
        last == IF stops = {} THEN Len(combs)
                ELSE (CHOOSE c \in stops : \A d \in stops : c <= d) - 1
    IN  List([cnt \in 1..last |-> <<combs[cnt], filtering(nums, combs[cnt])>>])

\* Group._paired_combinations(numbers, m, limit): the pairs it yields.
_paired_combinations(nums, mm, limit) ==
    LET combs == combinations(nums, mm)
        stops == {cnt \in 1..Len(combs) : cnt \in limit}
        last == IF stops = {} THEN Len(combs)
                ELSE CHOOSE c \in stops : \A d \in stops : c <= d
    IN  List([cnt \in 1..last |-> <<combs[cnt], filtering(nums, combs[cnt])>>])

\* The body of the loops of _partition_into_unique_pairs over the pairs that
\* _paired_combinations yields, from pair i on.
RECURSIVE UniquePairs(_, _, _)
UniquePairs(cands, i, unique_numbers) ==
    IF i > Len(cands) THEN <<>>
    ELSE IF cands[i][1] \in unique_numbers
         THEN UniquePairs(cands, i + 1, unique_numbers)
         ELSE <<cands[i]>>
                  \o UniquePairs(cands, i + 1, unique_numbers \cup {cands[i][1]})

\* Group._partition_into_unique_pairs: the pairs <<numbers1, numbers2>> whose
\* groups it looks up in all_groups. A group is referred to by its key.
_partition_into_unique_pairs(nums) ==
    LET size == Len(nums)
        limits == <<_halfbinom(size, size \div 2)>>
        first == (size + 1) \div 2
        \* zip_longest(range(first, size), limits): None fills the short side
        zipped == List([i \in 1..(size - first) |->
                     <<first + i - 1,
                       IF i <= Len(limits) THEN limits[i] ELSE {}>>])
    IN  IF size = 1 THEN <<>>
        ELSE UniquePairs(
                 Flatten([i \in 1..Len(zipped) |->
                     _paired_combinations(nums, zipped[i][1], zipped[i][2])]),
                 1, {})

Keys(groups) == {groups[i].numbers : i \in 1..Len(groups)}

\* all_groups[numbers]
Lookup(groups, nums) ==
    groups[CHOOSE i \in 1..Len(groups) : groups[i].numbers = nums]

\* Group._perform_calculations, with the origin of every calculation.
_perform_calculations(nums, partitions, groups) ==
    IF Len(nums) = 1
    THEN << [calc |-> singleton(nums[1]), op |-> "", x |-> nums[1], y |-> 0] >>
    ELSE Flatten([p \in 1..Len(partitions) |->
           LET c1 == Lookup(groups, partitions[p][1]).calculations
               c2 == Lookup(groups, partitions[p][2]).calculations
           IN  Flatten([q \in 1..(Len(c1) * Len(c2)) |->
                   generate(c1[((q - 1) \div Len(c2)) + 1],
                            c2[((q - 1) % Len(c2)) + 1])])])

-----------------------------------------------------------------------------
\* The program.

Init ==
    /\ pc = "cli"
    /\ \E inp \in Inputs : target = inp[1] /\ unsorted_numbers = inp[2]
    /\ numbers = <<>>
    /\ all_groups = <<>>
    /\ m = 0
    /\ k = 0
    /\ emitted = {}
    /\ smallest_difference = 0
    /\ bestresults = <<>>
    /\ pos = <<0, 0>>
    /\ printed = <<>>

\* countdown_solver, line 220, and the start of Solutions._unique_groups.
\* unsorted_numbers is not read again.
SortNumbers ==
    /\ pc = "cli"
    /\ numbers' = SortedReverse(unsorted_numbers)
    /\ unsorted_numbers' = <<>>
    /\ all_groups' = <<>>
    /\ m' = 1
    /\ k' = 1
    /\ pc' = "groups"
    /\ UNCHANGED <<target, emitted, smallest_difference, bestresults, pos, printed>>

\* The sizes Solutions._unique_groups goes through: range(1, size+1).
LastSize(size) == size

\* Group(numbers, all_groups), lines 96 to 99: the new Group, whether every
\* lookup all_groups[...] of its partitions found its key, and the operations
\* its calculations were generated by.
Group(nums, groups) ==
    LET partitions == _partition_into_unique_pairs(nums)
        found == \A p \in 1..Len(partitions) :
                    /\ partitions[p][1] \in Keys(groups)
                    /\ partitions[p][2] \in Keys(groups)
        made == IF found THEN _perform_calculations(nums, partitions, groups)
                ELSE <<>>
    IN  [found |-> found,
         group |-> [numbers |-> nums, size |-> Len(nums),
                    partitions |-> partitions,
                    calculations |-> List([i \in 1..Len(made) |-> made[i].calc])],
         ops |-> {[op |-> made[i].op, x |-> made[i].x, y |-> made[i].y,
                   result |-> made[i].calc.result] : i \in 1..Len(made)}]

\* One round of the inner loop of Solutions._unique_groups: the k-th
\* combination of size m is skipped or becomes a new Group.
UniqueGroupsStep ==
    /\ pc = "groups"
    /\ m <= LastSize(Len(numbers))
    /\ \E combs \in {combinations(numbers, m)} :
          /\ IF combs[k] \in Keys(all_groups)
             THEN UNCHANGED <<all_groups, emitted, pc>>
             ELSE \E g \in {Group(combs[k], all_groups)} :
                    IF g.found
                    THEN /\ all_groups' = Append(all_groups, g.group)
                         /\ emitted' = emitted \cup g.ops
                         /\ pc' = pc
                    ELSE /\ pc' = "KeyError"
                         /\ UNCHANGED <<all_groups, emitted>>
          /\ IF k < Len(combs)
             THEN k' = k + 1 /\ m' = m
             ELSE k' = 1 /\ m' = m + 1
    /\ UNCHANGED <<target, unsorted_numbers, numbers, smallest_difference,
                   bestresults, pos, printed>>

\* The position after <<gi, ci>> in Solutions.walk(): the next calculation of
\* the group, else the first one of the next group that has any.
RECURSIVE NextRef(_, _, _)
NextRef(groups, gi, ci) ==
    IF gi > Len(groups) THEN <<gi, 0>>
    ELSE IF ci + 1 <= Len(groups[gi].calculations) THEN <<gi, ci + 1>>
    ELSE NextRef(groups, gi + 1, 0)

Reverse(s) == [i \in 1..Len(s) |-> s[Len(s) + 1 - i]]

values_reversed(groups) == List(Reverse(groups))

\* self.all_groups.values(): the groups in the order of their insertion.
values(groups) == groups

\* The value smallest_difference starts from, line 223.
InitialDifference(t) == t

\* countdown_solver, lines 223 to 225: the table is built, the scan starts.
InitScan ==
    /\ pc = "groups"
    /\ m > LastSize(Len(numbers))
    /\ smallest_difference' = InitialDifference(target)
    /\ bestresults' = <<>>
    /\ pos' = NextRef(values(all_groups), 1, 0)
    /\ pc' = "scan"
    /\ UNCHANGED <<target, unsorted_numbers, numbers, all_groups, m, k,
                   emitted, printed>>

\* The calculation a reference <<gi, ci>> into the table stands for.
Deref(ref) == values(all_groups)[ref[1]].calculations[ref[2]]

\* One round of the loop of countdown_solver, lines 225 to 232.
ScanStep ==
    /\ pc = "scan"
    /\ pos[1] <= Len(all_groups)
    /\ LET calculation == Deref(pos)
           diff == Abs(calculation.result - target)
       IN  IF diff <= smallest_difference
           THEN IF diff < smallest_difference
                THEN /\ bestresults' = <<pos>>
                     /\ smallest_difference' = diff
                ELSE /\ bestresults' = Append(bestresults, pos)
                     /\ UNCHANGED smallest_difference
           ELSE UNCHANGED <<bestresults, smallest_difference>>
    /\ pos' = NextRef(values(all_groups), pos[1], pos[2])
    /\ UNCHANGED <<pc, target, unsorted_numbers, numbers, all_groups, m, k,
                   emitted, printed>>

\* output(target, diff, results), lines 233 to 239.
Output ==
    /\ pc = "scan"
    /\ pos[1] > Len(all_groups)
    /\ printed' =
          << "The closest results differ from " \o ToString(target) \o " by "
                 \o ToString(smallest_difference) \o ". They are:" >>
          \o List([i \in 1..Len(bestresults) |->
                 ToString(Deref(bestresults[i]).result) \o " = "
                     \o Deref(bestresults[i]).expr])
    /\ pc' = "done"
    /\ UNCHANGED <<target, unsorted_numbers, numbers, all_groups, m, k,
                   emitted, smallest_difference, bestresults, pos>>

Next == SortNumbers \/ UniqueGroupsStep \/ InitScan \/ ScanStep \/ Output

Spec == Init /\ [][Next]_vars

-----------------------------------------------------------------------------
\* Properties.

\* The table is being built, or the run is over. all_groups changes in
\* UniqueGroupsStep only, so what holds of the table in these states holds
\* of it throughout the scan as well.
TableStable == pc \in {"groups", "done"}

\* The references of all calculations that Solutions.walk() yields.
WalkRefs ==
    UNION { {<<gi, ci>> : ci \in 1..Len(values(all_groups)[gi].calculations)} :
            gi \in 1..Len(all_groups) }

DiffOf(ref) == Abs(Deref(ref).result - target)

\* The subsequence of nums at the positions in S, from position i on.
RECURSIVE Pick(_, _, _)
Pick(nums, S, i) ==
    IF i > Len(nums) THEN <<>>
    ELSE (IF i \in S THEN <<nums[i]>> ELSE <<>>) \o Pick(nums, S, i + 1)

Count(v, s) == Cardinality({i \in 1..Len(s) : s[i] = v})

Elems(s) == {s[i] : i \in 1..Len(s)}

\* C1: once the scan is over, the reported difference is the minimum of
\* |result - target| over all generated calculations, and the result list is
\* exactly the calculations that achieve it, each once, so it is not empty.
C1_ClosestResults ==
    pc = "done" =>
        /\ WalkRefs # {}
        /\ \A r \in WalkRefs : smallest_difference <= DiffOf(r)
        /\ \E r \in WalkRefs : smallest_difference = DiffOf(r)
        /\ Elems(bestresults) = {r \in WalkRefs : DiffOf(r) = smallest_difference}
        /\ Len(bestresults) = Cardinality(Elems(bestresults))
        /\ bestresults # <<>>
        /\ (Len(numbers) = 1 =>
               /\ Len(printed) = 2
               /\ printed[2] = ToString(numbers[1]) \o " = " \o ToString(numbers[1])
               /\ smallest_difference = Abs(numbers[1] - target))

\* C2: no two entries of the final best-results list have the same
\* expression text.
C2_UniqueResults ==
    pc = "done" =>
        \A i, j \in 1..Len(bestresults) :
            i < j => Deref(bestresults[i]).expr # Deref(bestresults[j]).expr

\* C3: the partitions of a Group never hold the same pair twice, nor a pair
\* together with its swap.
C3_PartitionUnique ==
    TableStable =>
        \A gi \in 1..Len(all_groups) :
            LET ps == all_groups[gi].partitions
            IN  \A i, j \in 1..Len(ps) :
                    i < j => /\ ps[i] # ps[j]
                             /\ ps[i] # <<ps[j][2], ps[j][1]>>

\* C4: in the final best-results list a result that uses fewer source
\* numbers stands before every result that uses more.
C4_Ordering ==
    pc = "done" =>
        \A i, j \in 1..Len(bestresults) :
            values(all_groups)[bestresults[i][1]].size
                < values(all_groups)[bestresults[j][1]].size
            => i < j

\* A result of one number and a result of several numbers are both listed.
C4_Witness ==
    /\ pc = "done"
    /\ \E i, j \in 1..Len(bestresults) :
          /\ values(all_groups)[bestresults[i][1]].size = 1
          /\ values(all_groups)[bestresults[j][1]].size > 2

ScenarioA == pc = "done" /\ target = 15 /\ numbers = <<7, 5, 3>>

\* The position of a line among the printed lines, 0 if it is not printed.
LineNo(line) ==
    IF \E i \in 1..Len(printed) : printed[i] = line
    THEN CHOOSE i \in 1..Len(printed) : printed[i] = line
    ELSE 0

\* C5 as stated: for target 15 and numbers (7, 5, 3) the difference is 0 and
\* the list holds 15 = 5 x 3 and the size-3 sums written (5 + 3) + 7,
\* (5 + 7) + 3 and (3 + 7) + 5, the size-2 result before the size-3 ones.
C5_ScenarioA_AsStated ==
    ScenarioA =>
        /\ smallest_difference = 0
        /\ LineNo("15 = 5 x 3") > 0
        /\ \A line \in {"15 = (5 + 3) + 7", "15 = (5 + 7) + 3",
                        "15 = (3 + 7) + 5"} :
               LineNo(line) > LineNo("15 = 5 x 3")

\* C5, amended: for target 15 and numbers (7, 5, 3) the difference is 0 and
\* the list holds 15 = 5 x 3 and the size-3 sums written (7 + 5) + 3,
\* (7 + 3) + 5 and (5 + 3) + 7, the size-2 result before the size-3 ones.
C5_ScenarioA ==
    ScenarioA =>
        /\ smallest_difference = 0
        /\ LineNo("15 = 5 x 3") > 0
        /\ \A line \in {"15 = (7 + 5) + 3", "15 = (7 + 3) + 5",
                        "15 = (5 + 3) + 7"} :
               LineNo(line) > LineNo("15 = 5 x 3")
        /\ \A i \in 1..Len(bestresults) :
               values(all_groups)[bestresults[i][1]].size = 3 => i > 1

C5_Witness == ScenarioA /\ Len(printed) = 5

\* C6: every calculation of every group has a result greater than 0, and a
\* division is emitted only when it is exact.
C6_Positivity ==
    /\ TableStable =>
          \A gi \in 1..Len(all_groups) :
              \A ci \in 1..Len(all_groups[gi].calculations) :
                  /\ all_groups[gi].calculations[ci].result \in Nat
                  /\ all_groups[gi].calculations[ci].result > 0
    /\ TableStable =>
          \A e \in emitted :
              /\ e.result > 0
              /\ e.op = "/" => e.result * e.y = e.x

\* Equal operands met generate, which emitted a division and no subtraction.
C6_Witness ==
    /\ pc = "done"
    /\ \E e \in emitted : e.op = "/" /\ e.x = e.y
    /\ \E e \in emitted : e.op = "-" /\ e.result = 1

\* C7: no multiplication and no division has an operand whose result is 1,
\* and a subtraction is emitted only for x > y, so its result is positive.
C7_Pruning ==
    TableStable =>
        \A e \in emitted :
            /\ e.op \in {"x", "/"} => e.x # 1 /\ e.y # 1
            /\ e.op = "-" => e.x > e.y /\ e.result > 0

\* generate met an operand 1 and emitted the sum but no product or quotient.
C7_Witness ==
    TableStable /\ \E e \in emitted :
        /\ e.op = "+" /\ e.y = 1 /\ e.x > 1
        /\ \A f \in emitted : (f.x = e.x /\ f.y = e.y) => f.op \in {"+", "-"}

\* The unordered pairs of value tuples in the partitions of a group.
Unordered(ps) == { {ps[i][1], ps[i][2]} : i \in 1..Len(ps) }

\* C8: the partitions of a group of size m > 1 hold every split of its
\* values into two non-empty parts, in one order or the other; for
\* (4, 2, 1, 1) they are the five pairs of the Group docstring.
C8_PartitionComplete ==
    TableStable =>
        \A gi \in 1..Len(all_groups) :
            LET g == all_groups[gi]
                all == 1..g.size
            IN  /\ \A S \in (SUBSET all) \ {{}, all} :
                      {Pick(g.numbers, S, 1), Pick(g.numbers, all \ S, 1)}
                          \in Unordered(g.partitions)
                /\ g.numbers = <<4, 2, 1, 1>> =>
                      /\ Len(g.partitions) = 5
                      /\ Unordered(g.partitions) =
                            { {<<4, 2, 1>>, <<1>>}, {<<4, 1, 1>>, <<2>>},
                              {<<2, 1, 1>>, <<4>>}, {<<4, 2>>, <<1, 1>>},
                              {<<4, 1>>, <<2, 1>>} }

\* The docstring's group is built: its values repeat, and of the seven
\* selections taken for it two were skipped as already used.
C8_Witness ==
    /\ pc = "done"
    /\ numbers = <<4, 2, 1, 1>>
    /\ \E gi \in 1..Len(all_groups) :
          /\ all_groups[gi].numbers = numbers
          /\ Len(all_groups[gi].partitions) < 7

\* C9: the running minimum starts from the absolute value of the target and
\* is non-negative at every step of the scan and when it is reported.
C9_NonNegativeDifference ==
    pc \in {"scan", "done"} =>
        /\ smallest_difference >= 0
        /\ bestresults = <<>> => smallest_difference = Abs(target)

\* C10: no lookup of a partition's group fails; both groups of a partition
\* were in the table before the group was built, are smaller than it, their
\* sizes add up to its size and their values together are its values.
C10_PartitionExact ==
    /\ pc # "KeyError"
    /\ (TableStable /\ numbers = <<4, 2, 1, 1>>) =>
          filtering(numbers, <<1>>) = <<4, 2, 1>>
    /\ TableStable =>
          \A gi \in 1..Len(all_groups) :
              LET g == all_groups[gi]
              IN  \A p \in 1..Len(g.partitions) :
                      \E i1, i2 \in 1..(gi - 1) :
                          /\ all_groups[i1].numbers = g.partitions[p][1]
                          /\ all_groups[i2].numbers = g.partitions[p][2]
                          /\ all_groups[i1].size < g.size
                          /\ all_groups[i2].size < g.size
                          /\ all_groups[i1].size + all_groups[i2].size = g.size
                          /\ \A v \in Elems(g.numbers) \cup Elems(g.partitions[p][1])
                                     \cup Elems(g.partitions[p][2]) :
                                 Count(v, g.partitions[p][1])
                                     + Count(v, g.partitions[p][2])
                                 = Count(v, g.numbers)

\* A group with a repeated value was split with one occurrence on each side.
C10_Witness ==
    /\ TableStable
    /\ \E gi \in 1..Len(all_groups) :
          \E p \in 1..Len(all_groups[gi].partitions) :
              \E v \in Elems(all_groups[gi].partitions[p][1]) :
                  v \in Elems(all_groups[gi].partitions[p][2])

====
